---- MODULE Spec2Model ----
(***************************************************************************)
(* A model of tools/optimizer/wasm.h: the chunked bump allocator Arena,    *)
(* the dual-mode identifier Var and the Module container.                  *)
(*                                                                         *)
(* A chunk is named by the number of the new[] call that created it, an    *)
(* offset is a byte offset into a chunk, and a pointer returned by alloc   *)
(* is a pair (chunk, offset).                                              *)
(***************************************************************************)
EXTENDS Integers, Sequences, FiniteSets, TLC

(* ------------------------------ bounds -------------------------------- *)

\* how many alloc calls a behaviour makes
MaxCalls == 4
\* how many Arena objects exist in the copying specification
MaxArenas == 3
\* how many new[] calls the copying specification makes
MaxChunks == 2
\* how many alloc calls the copying specification makes
MaxCopyCalls == 2
\* how many Var objects a behaviour constructs
MaxVars == 3
\* how many functions a behaviour registers in the module
MaxFunctions == 3
\* how many identifiers a behaviour mints
MaxMint == 4

(* --------------------------- program constants ------------------------ *)

CHUNK_SIZE == 10000

\* sizeof(T) of the types a caller allocates: small, around half a chunk,
\* around a whole chunk and beyond it
SizeofT == {1, 8, 9, 4992, 5000, 5001, 9985, 9992, 9993, 10000, 10001, 10009}

\* sizes used by the copying specification
CopySizeofT == {8, 9985}

\* values the uninitialised member `index` may hold after construction
Garbage == {-8, 0, 7, 9992, 10000}

\* the same, in the copying specification
CopyGarbage == {7}

ArenaIds == 1..MaxArenas

MAX_NUM == 1000000

\* arguments of Var(unsigned): zero, small, next to MAX_NUM, large
NumArgs == {0, 1, 2, 999999, 1000000, 1000001, 2147483647}

\* arguments of Var(Name), as addresses: null, low, next to MAX_NUM, high
StrArgs == {0, 2, 999999, 1000000, 1000001, 1000002, 2147483647}

\* the addresses of the names the module's functions carry; a name is
\* interned, so one name is one address
Names == {1000001, 1000002, 2147483647}

VARIABLES
  arenas,     \* arena id -> [st, chunks, index]: the Arena objects
  nextChunk,  \* number of new[] calls made so far, plus one
  freed,      \* chunk -> how many times delete[] was applied to it
  owner,      \* chunk -> the arena whose alloc created it
  allocs,     \* arena id -> the pointers its alloc returned, in order
  ncalls,     \* number of alloc calls made
  call,       \* the last alloc call: its arena, sizeof(T), outcome
  index0,     \* arena id -> the value `index` held after construction
  failed,     \* an assertion failed: the program has aborted
  made,       \* the Var objects constructed so far
  vcall,      \* the last Var constructor call: constructor, argument, outcome
  functions,  \* Module::functions
  map,        \* Module::map, as a set of <<key, entity>> pairs
  nextVar,    \* Module::nextVar
  minted,     \* the identifiers minted so far, in order
  lookup      \* the last resolution: its key and result

arenaVars == <<arenas, nextChunk, freed, owner, allocs, ncalls, call, index0>>

varVars == <<made, vcall>>

moduleVars == <<functions, map, nextVar, minted, lookup>>

vars == <<arenaVars, failed, varVars, moduleVars>>

(* ------------------------------- Arena -------------------------------- *)

\* an Arena that does not exist (yet)
NoArena == [st |-> "none", chunks |-> <<>>, index |-> 0]

\* what an alloc call that returned nothing leaves as its result
NoRet == [ok |-> FALSE, chunk |-> 0, off |-> 0, size |-> 0]

NoCall == [arena |-> 0, size |-> 0, ret |-> NoRet, pre |-> [n |-> 0, index |-> 0]]

\* the rounding forgotten: currSize = sizeof(T)
RoundUpNot(sz) == sz

\* (sizeof(T) + 7) & (-8)
RoundUp(sz) == ((sz + 7) \div 8) * 8

\* the assertion compiled out
AssertSizeOff(currSize) == TRUE

\* assert(currSize < CHUNK_SIZE)
AssertSize(currSize) == currSize < CHUNK_SIZE

\* the comparison written with > instead of >=
NeedsChunkGt(chunks, index, currSize) ==
  \/ Len(chunks) = 0
  \/ index + currSize > CHUNK_SIZE

\* chunks.size() == 0 || index + currSize >= CHUNK_SIZE; `index` is read only
\* when there is a chunk
NeedsChunk(chunks, index, currSize) ==
  \/ Len(chunks) = 0
  \/ index + currSize >= CHUNK_SIZE

\* the reset of the cursor forgotten
FreshIndexKeep(index) == index

\* index = 0 for a new chunk
FreshIndex(index) == 0

\* the cursor assigned instead of advanced: index = currSize
BumpAssign(index, currSize) == currSize

\* index += currSize
Bump(index, currSize) == index + currSize

\* Arena(): chunks is empty, index is left uninitialised
ArenaCtor(g) == [st |-> "alive", chunks |-> <<>>, index |-> g]

\* T* Arena::alloc<T>() on arena a with sizeof(T) = sz
Alloc(a, sz) ==
  LET A        == arenas[a]
      currSize == RoundUp(sz)
  IN
  /\ ~failed
  /\ A.st = "alive"
  /\ ncalls' = ncalls + 1
  /\ IF ~AssertSize(currSize)
     THEN /\ failed' = TRUE
          /\ call' = [arena |-> a, size |-> sz, ret |-> NoRet,
                       pre |-> [n |-> Len(A.chunks), index |-> A.index]]
          /\ UNCHANGED <<arenas, nextChunk, freed, owner, allocs, index0>>
     ELSE LET grow   == NeedsChunk(A.chunks, A.index, currSize)
              chunks == IF grow THEN Append(A.chunks, nextChunk) ELSE A.chunks
              index  == IF grow THEN FreshIndex(A.index) ELSE A.index
              ret    == [ok |-> TRUE, chunk |-> chunks[Len(chunks)],
                         off |-> index, size |-> currSize]
          IN
          /\ arenas' = [arenas EXCEPT ![a] =
                          [st |-> "alive", chunks |-> chunks,
                           index |-> Bump(index, currSize)]]
          /\ nextChunk' = IF grow THEN nextChunk + 1 ELSE nextChunk
          /\ owner' = IF grow THEN [owner EXCEPT ![nextChunk] = a] ELSE owner
          /\ allocs' = [allocs EXCEPT ![a] = Append(@, ret)]
          /\ call' = [arena |-> a, size |-> sz, ret |-> ret,
                       pre |-> [n |-> Len(A.chunks), index |-> A.index]]
          /\ UNCHANGED <<freed, index0, failed>>

\* delete[] chunk, for each chunk of the list
RECURSIVE DeleteAll(_, _)
DeleteAll(f, chunks) ==
  IF chunks = <<>> THEN f
  ELSE DeleteAll([f EXCEPT ![Head(chunks)] = @ + 1], Tail(chunks))

\* Arena::~Arena()
Destroy(a) ==
  /\ ~failed
  /\ arenas[a].st = "alive"
  /\ freed' = DeleteAll(freed, arenas[a].chunks)
  /\ arenas' = [arenas EXCEPT ![a].st = "dead"]
  /\ UNCHANGED <<nextChunk, owner, allocs, ncalls, call, index0, failed>>

(* -------------------------------- Var --------------------------------- *)

\* Var(): num(0)
VarDefault == [ctor |-> "default", val |-> 0]

\* the upper bound forgotten: assert(num > 0)
NumOkNoMax(num) == num > 0

\* assert(num > 0 && num < MAX_NUM)
NumOk(num) == num > 0 /\ num < MAX_NUM

\* the comparison written with >= instead of >
StrOkGe(str) == str >= MAX_NUM

\* assert(((size_t)str) > MAX_NUM)
StrOk(str) == str > MAX_NUM

NoVCall == [ctor |-> "none", arg |-> 0, ok |-> FALSE]

InitVars ==
  /\ made = {}
  /\ vcall = NoVCall

\* Var v;
NewVar ==
  /\ ~failed
  /\ Cardinality(made) < MaxVars
  /\ made' = made \cup {VarDefault}
  /\ vcall' = [ctor |-> "default", arg |-> 0, ok |-> TRUE]
  /\ UNCHANGED <<arenaVars, failed, moduleVars>>

\* Var v(num): the member num is set, then the assertion is evaluated
NewVarNum ==
  /\ ~failed
  /\ Cardinality(made) < MaxVars
  /\ \E num \in NumArgs :
       IF NumOk(num)
       THEN /\ made' = made \cup {[ctor |-> "num", val |-> num]}
            /\ vcall' = [ctor |-> "num", arg |-> num, ok |-> TRUE]
            /\ UNCHANGED failed
       ELSE /\ failed' = TRUE
            /\ vcall' = [ctor |-> "num", arg |-> num, ok |-> FALSE]
            /\ UNCHANGED made
  /\ UNCHANGED <<arenaVars, moduleVars>>

\* Var v(str): the member str is set, then the assertion is evaluated
NewVarStr ==
  /\ ~failed
  /\ Cardinality(made) < MaxVars
  /\ \E str \in StrArgs :
       IF StrOk(str)
       THEN /\ made' = made \cup {[ctor |-> "str", val |-> str]}
            /\ vcall' = [ctor |-> "str", arg |-> str, ok |-> TRUE]
            /\ UNCHANGED failed
       ELSE /\ failed' = TRUE
            /\ vcall' = [ctor |-> "str", arg |-> str, ok |-> FALSE]
            /\ UNCHANGED made
  /\ UNCHANGED <<arenaVars, moduleVars>>

\* MAX_NUM: "less than this, a num, higher, a string; 0 = null"
Mode(val) ==
  IF val = 0 THEN "null"
  ELSE IF val < MAX_NUM THEN "num"
  ELSE IF val > MAX_NUM THEN "str"
  ELSE "invalid"

\* equality of two identifiers: both numeric with the same value, or both
\* named with the same name, read from the stored values
VarEq(a, b) ==
  /\ Mode(a.val) = Mode(b.val)
  /\ Mode(a.val) \in {"num", "str"}
  /\ a.val = b.val

(* ------------------------------- Module ------------------------------- *)

\* the counter started at the null identifier
ModuleCtorZero == [nextVar |-> 0, map |-> {}, functions |-> <<>>]

\* Module() : nextVar(1) {}, the containers default-constructed
ModuleCtor == [nextVar |-> 1, map |-> {}, functions |-> <<>>]

NoLookup == [key |-> 0, found |-> FALSE, entity |-> 0]

InitModule ==
  /\ functions = ModuleCtor.functions
  /\ map = ModuleCtor.map
  /\ nextVar = ModuleCtor.nextVar
  /\ minted = <<>>
  /\ lookup = NoLookup

(* ------------------- one arena: construction, alloc, destruction ------ *)

AllChunks == 1..(MaxCalls + MaxChunks + 2)

InitArenaWith(G) ==
  /\ \E g \in G :
       /\ arenas = [a \in ArenaIds |-> IF a = 1 THEN ArenaCtor(g) ELSE NoArena]
       /\ index0 = [a \in ArenaIds |-> IF a = 1 THEN g ELSE 0]
  /\ nextChunk = 1
  /\ freed = [c \in AllChunks |-> 0]
  /\ owner = [c \in AllChunks |-> 0]
  /\ allocs = [a \in ArenaIds |-> <<>>]
  /\ ncalls = 0
  /\ call = NoCall

InitArena ==
  /\ InitArenaWith(Garbage)
  /\ failed = FALSE
  /\ InitVars
  /\ InitModule

AllocOne ==
  /\ \E sz \in SizeofT : ncalls < MaxCalls /\ Alloc(1, sz)
  /\ UNCHANGED <<varVars, moduleVars>>

DestroyOne == Destroy(1) /\ UNCHANGED <<varVars, moduleVars>>

NextArena == AllocOne \/ DestroyOne

SpecArena == InitArena /\ [][NextArena]_vars

(* ---------------- several arenas: copies of an Arena ----------------- *)

\* Arena b; a further default-constructed arena
Construct(b) ==
  /\ ~failed
  /\ arenas[b].st = "none"
  /\ \E g \in CopyGarbage :
       /\ arenas' = [arenas EXCEPT ![b] = ArenaCtor(g)]
       /\ index0' = [index0 EXCEPT ![b] = g]
  /\ UNCHANGED <<nextChunk, freed, owner, allocs, ncalls, call, failed>>

\* Arena b(a): the implicit copy constructor copies the vector of chunk
\* pointers and the cursor member by member. The implicit copy constructor
\* of Module does this to its member `allocator`.
CopyConstruct(b, a) ==
  /\ ~failed
  /\ arenas[b].st = "none"
  /\ arenas[a].st = "alive"
  /\ arenas' = [arenas EXCEPT ![b] = arenas[a]]
  /\ index0' = [index0 EXCEPT ![b] = arenas[a].index]
  /\ UNCHANGED <<nextChunk, freed, owner, allocs, ncalls, call, failed>>

\* b = a: the implicit copy assignment replaces b's vector of chunk pointers
\* and cursor by a's; nothing is deleted
CopyAssign(b, a) ==
  /\ ~failed
  /\ a # b
  /\ arenas[b].st = "alive"
  /\ arenas[a].st = "alive"
  /\ arenas[b] # arenas[a]
  /\ arenas' = [arenas EXCEPT ![b] = arenas[a]]
  /\ UNCHANGED <<nextChunk, freed, owner, allocs, ncalls, call, index0, failed>>

ConstructAny ==
  /\ \E b \in ArenaIds : Construct(b)
  /\ UNCHANGED <<varVars, moduleVars>>

CopyConstructAny ==
  /\ \E a, b \in ArenaIds : CopyConstruct(b, a)
  /\ UNCHANGED <<varVars, moduleVars>>

CopyAssignAny ==
  /\ \E a, b \in ArenaIds : CopyAssign(b, a)
  /\ UNCHANGED <<varVars, moduleVars>>

AllocAny ==
  /\ \E a \in ArenaIds, sz \in CopySizeofT :
       /\ ncalls < MaxCopyCalls
       /\ nextChunk <= MaxChunks
       /\ Alloc(a, sz)
  /\ UNCHANGED <<varVars, moduleVars>>

DestroyAny ==
  /\ \E a \in ArenaIds : Destroy(a)
  /\ UNCHANGED <<varVars, moduleVars>>

NextCopy ==
  ConstructAny \/ CopyConstructAny \/ CopyAssignAny \/ AllocAny \/ DestroyAny

InitCopy ==
  /\ InitArenaWith(CopyGarbage)
  /\ failed = FALSE
  /\ InitVars
  /\ InitModule

SpecCopy == InitCopy /\ [][NextCopy]_vars

\* C7: every chunk an arena has allocated is released exactly once, and only
\* when that arena is destroyed: it is not deleted while the arena is alive,
\* and it has been deleted once, not more and not less, when the arena is gone.
C7_ReleasedExactlyOnce ==
  \A c \in 1..(nextChunk - 1) :
    LET o == owner[c] IN
    /\ arenas[o].st = "alive" => freed[c] = 0
    /\ arenas[o].st = "dead" => freed[c] = 1

(* ----------------------- construction of Vars ------------------------ *)

NextVars == NewVar \/ NewVarNum \/ NewVarStr

SpecVar == InitCopy /\ [][NextVars]_vars

\* C5: two Vars are equal exactly when both were constructed numeric with
\* the same value or both were constructed named with the same name; so
\* Var(v) == Var(v), Var(n) == Var(n), and a numeric Var never equals a named
\* one.
C5_EqualWithinOneMode ==
  \A a, b \in made :
    /\ VarEq(a, b) <=>
         \/ a.ctor = "num" /\ b.ctor = "num" /\ a.val = b.val
         \/ a.ctor = "str" /\ b.ctor = "str" /\ a.val = b.val
    /\ a.ctor \in {"num", "str"} => VarEq(a, a)
    /\ (a.ctor = "num" /\ b.ctor = "str") => ~VarEq(a, b) /\ ~VarEq(b, a)

\* numeric Vars next to the threshold and named Vars next to it exist, and
\* some numeric Var is compared with some named Var
C5_Witness ==
  /\ [ctor |-> "num", val |-> MAX_NUM - 1] \in made
  /\ [ctor |-> "str", val |-> MAX_NUM + 1] \in made
  /\ \E a, b \in made : a # b /\ a.ctor = b.ctor /\ ~VarEq(a, b)

\* C6: every constructed Var is in exactly one of three states: null (default
\* construction, value 0), numeric with 0 < num < MAX_NUM, or named with an
\* address above MAX_NUM; a numeric Var of 0 or of MAX_NUM or more, and a named
\* Var of an address of MAX_NUM or less, abort instead of producing a Var.
C6_VarStates ==
  /\ \A v \in made :
       /\ v.ctor = "default" <=> v.val = 0
       /\ v.ctor = "num" <=> (0 < v.val /\ v.val < MAX_NUM)
       /\ v.ctor = "str" <=> v.val > MAX_NUM
       /\ Mode(v.val) # "invalid"
  /\ (vcall.ctor = "num" /\ (vcall.arg = 0 \/ vcall.arg >= MAX_NUM)) =>
       /\ failed
       /\ ~vcall.ok
       /\ [ctor |-> "num", val |-> vcall.arg] \notin made
  /\ (vcall.ctor = "str" /\ vcall.arg <= MAX_NUM) =>
       /\ failed
       /\ ~vcall.ok
       /\ [ctor |-> "str", val |-> vcall.arg] \notin made
  /\ vcall.ok => ~failed

\* a null Var and a numeric Var were constructed, and then the construction
\* of a named Var from the address MAX_NUM aborted
C6_Witness ==
  /\ \E u, v \in made : u.ctor = "default" /\ v.ctor = "num"
  /\ vcall = [ctor |-> "str", arg |-> MAX_NUM, ok |-> FALSE]
  /\ failed

(* ------------------------- use of the Module -------------------------- *)

\* the entity a key maps to, 0 when the map has no entry for the key
Find(m, key) ==
  IF \E e \in m : e[1] = key
  THEN (CHOOSE e \in m : e[1] = key)[2]
  ELSE 0

\* a lookup that creates the missing entry, as map[key] does: an entity is
\* always found
ResolveDefault(m, key) == [key |-> key, found |-> TRUE, entity |-> Find(m, key)]

\* resolve an identifier: the entity the map holds for the key, or the
\* unresolved-reference signal
Resolve(m, key) ==
  [key |-> key, found |-> \E e \in m : e[1] = key, entity |-> Find(m, key)]

\* register a Function named n: it is appended to `functions`, and the map
\* takes (or replaces) the entry from Var(n) to the function, which is
\* denoted by its position in `functions`
RegisterFunction(n) ==
  /\ ~failed
  /\ Len(functions) < MaxFunctions
  /\ StrOk(n)
  /\ functions' = Append(functions, [self |-> [name |-> n, type |-> "none"]])
  /\ map' = {e \in map : e[1] # n} \cup {<<n, Len(functions) + 1>>}
  /\ UNCHANGED <<nextVar, minted, lookup>>

\* mint a fresh numeric identifier: the counter's value, the counter advanced
Mint ==
  /\ ~failed
  /\ nextVar <= MaxMint
  /\ minted' = Append(minted, nextVar)
  /\ nextVar' = nextVar + 1
  /\ UNCHANGED <<functions, map, lookup>>

\* the keys resolved: the names, and the numeric identifiers
Keys == Names \cup (1..MaxMint)

Register ==
  /\ \E n \in Names : RegisterFunction(n)
  /\ UNCHANGED <<arenaVars, failed, varVars>>

MintOne == Mint /\ UNCHANGED <<arenaVars, failed, varVars>>

ResolveOne ==
  /\ ~failed
  /\ \E key \in Keys : lookup' = Resolve(map, key)
  /\ UNCHANGED <<functions, map, nextVar, minted>>
  /\ UNCHANGED <<arenaVars, failed, varVars>>

NextModule == Register \/ MintOne \/ ResolveOne

SpecModule == InitCopy /\ [][NextModule]_vars

\* the positions in `functions` of the functions named n
Registered(n) == {i \in 1..Len(functions) : functions[i].self.name = n}

Newest(S) == CHOOSE i \in S : \A j \in S : j <= i

\* C3: once a Function named n is registered, resolving Var(n) finds that
\* function (the one registered last under the name); resolving a key that was
\* never registered gives the unresolved-reference signal, not an entity.
C3_ResolveRegistered ==
  [][\A key \in Keys :
       lookup' # lookup /\ lookup'.key = key =>
         IF key \in Names /\ Registered(key) # {}
         THEN lookup'.found /\ lookup'.entity = Newest(Registered(key))
         ELSE ~lookup'.found /\ lookup'.entity = 0]_vars

\* a registered name was resolved to the second function while another name
\* is not registered
C3_Witness ==
  /\ lookup.found
  /\ lookup.entity = 2
  /\ functions[2].self.name = lookup.key
  /\ functions[1].self.name # lookup.key
  /\ \E n \in Names : Registered(n) = {}

\* C4: minting n times from a freshly constructed Module returns 1, 2, ..., n
\* in this order: never 0, never a value twice.
C4_MintCountsFromOne ==
  /\ \A i \in 1..Len(minted) : minted[i] = i
  /\ nextVar = Len(minted) + 1

\* several identifiers were minted, with registrations in between
C4_Witness ==
  /\ Len(minted) >= 3
  /\ Len(functions) >= 1

(* ------------------------ properties of alloc ------------------------- *)

Last(s) == s[Len(s)]

RECURSIVE SumSizes(_)
SumSizes(s) == IF s = <<>> THEN 0 ELSE Head(s).size + SumSizes(Tail(s))

\* two returned regions share no byte
Disjoint(p, q) ==
  \/ p.chunk # q.chunk
  \/ p.off + p.size <= q.off
  \/ q.off + q.size <= p.off

\* C1: the regions alloc has returned on one arena (offset to offset +
\* rounded size, within their chunk) are pairwise disjoint, and when the
\* rounded sizes sum to more than CHUNK_SIZE the arena has at least two chunks.
C1_NoAliasAndSecondChunk ==
  \A a \in ArenaIds :
    LET L == allocs[a] IN
    /\ \A i, j \in 1..Len(L) : i < j => Disjoint(L[i], L[j])
    /\ SumSizes(L) > CHUNK_SIZE => Len(arenas[a].chunks) >= 2

\* three allocations summing to more than a chunk, two of them in one chunk
C1_Witness ==
  LET L == allocs[1] IN
  /\ Len(L) >= 3
  /\ SumSizes(L) > CHUNK_SIZE
  /\ Len(arenas[1].chunks) >= 2
  /\ \E i, j \in 1..Len(L) : i < j /\ L[i].chunk = L[j].chunk

\* C2: an alloc call with sizeof(T) above CHUNK_SIZE aborts on the assertion
\* and changes nothing: no chunk is appended, no pointer is returned, the
\* cursor stays.
C2_OversizeFailsFast ==
  [][(ncalls' # ncalls /\ call'.size > CHUNK_SIZE) =>
       /\ failed'
       /\ ~call'.ret.ok
       /\ UNCHANGED <<arenas, nextChunk, allocs, owner, freed>>]_vars

\* an oversize request was made after a successful one and aborted
C2_Witness ==
  /\ failed
  /\ call.size > CHUNK_SIZE
  /\ Len(allocs[1]) >= 1

\* C8: every returned pointer is at an offset that is a multiple of 8, its
\* region of the rounded size ends at or before the chunk's end, and after at
\* least one successful alloc the cursor is a multiple of 8 below CHUNK_SIZE.
C8_AlignedInsideChunk ==
  \A a \in ArenaIds :
    /\ \A i \in 1..Len(allocs[a]) :
         LET p == allocs[a][i] IN
         /\ p.off >= 0
         /\ p.off % 8 = 0
         /\ p.size % 8 = 0
         /\ p.off + p.size <= CHUNK_SIZE
    /\ Len(allocs[a]) > 0 =>
         /\ arenas[a].index % 8 = 0
         /\ arenas[a].index >= 0
         /\ arenas[a].index < CHUNK_SIZE

\* a type whose size is not a multiple of 8 was placed behind another object
\* and the chunk is filled as far as alloc ever fills one
C8_Witness ==
  /\ call.ret.ok
  /\ call.size % 8 # 0
  /\ call.ret.off > 0
  /\ arenas[1].index = CHUNK_SIZE - 8

\* what one alloc step on arena a does to the chunk list, given the rule
\* `overflows` for when the current chunk cannot take the request
AllocStepFollows(a, overflows(_, _)) ==
  LET A == arenas[a]
      p == Last(allocs'[a])
      grow == Len(A.chunks) = 0 \/ overflows(A.index, p.size)
  IN
  /\ grow =>
       /\ Len(arenas'[a].chunks) = Len(A.chunks) + 1
       /\ p.chunk = Last(arenas'[a].chunks)
       /\ p.chunk = nextChunk
       /\ p.off = 0
  /\ ~grow =>
       /\ arenas'[a].chunks = A.chunks
       /\ p.chunk = Last(A.chunks)
       /\ p.off = A.index

OverflowsGt(index, currSize) == index + currSize > CHUNK_SIZE

OverflowsGe(index, currSize) == index + currSize >= CHUNK_SIZE

\* C9 as stated: alloc appends a chunk exactly when there is no chunk or
\* cursor + rounded size is greater than CHUNK_SIZE; otherwise, an exact fill
\* included, it allocates at the cursor and the chunk list is unchanged.
C9_Original ==
  [][\A a \in ArenaIds :
       allocs'[a] # allocs[a] => AllocStepFollows(a, OverflowsGt)]_vars

\* C9 amended: alloc appends a chunk exactly when there is no chunk or
\* cursor + rounded size is greater than or equal to CHUNK_SIZE, so a request
\* that would fill the current chunk exactly starts a new chunk too; otherwise
\* it allocates at the cursor and the chunk list is unchanged.
C9_AppendsWhenReachesEnd ==
  [][\A a \in ArenaIds :
       allocs'[a] # allocs[a] => AllocStepFollows(a, OverflowsGe)]_vars

\* a request that would have filled the current chunk exactly got a new chunk
C9_Witness ==
  /\ call.ret.ok
  /\ call.pre.n > 0
  /\ call.pre.index + call.ret.size = CHUNK_SIZE
  /\ Len(arenas[1].chunks) = call.pre.n + 1
  /\ call.ret.off = 0

\* C10: the value `index` held after construction has no influence: the first
\* alloc on an arena without chunks appends a chunk and returns its offset 0,
\* and the cursor is always the end of the last returned region.
C10_GarbageCursorNeverRead ==
  \A a \in ArenaIds :
    LET L == allocs[a] IN
    Len(L) >= 1 =>
      /\ Len(arenas[a].chunks) >= 1
      /\ L[1].chunk = arenas[a].chunks[1]
      /\ L[1].off = 0
      /\ arenas[a].index = Last(L).off + Last(L).size

\* the arena was constructed with a cursor that is no valid offset, and has
\* served two requests
C10_Witness ==
  /\ index0[1] \notin 0..(CHUNK_SIZE - 1)
  /\ Len(allocs[1]) >= 2

====
